---------------------------- MODULE Spec2Model ----------------------------
(***************************************************************************)
(* Model of src/composables/useGameView.ts: the Vue composable that        *)
(* mounts a BABYLON engine on a canvas, assembles the scene (camera,       *)
(* light, shadow generator, ground, skybox), starts the render loop and    *)
(* installs the window resize listener; and of the hexagonal ground        *)
(* generator createGround / createGroundLine / createGroundObject.         *)
(*                                                                         *)
(* JavaScript numbers are IEEE-754 binary64.  The coordinates and heights  *)
(* the generator computes are modelled bit-exactly on the grid of          *)
(* multiples of 2^-54: a number v is the pair <<hi, lo>> with              *)
(* v = (hi * 2^28 + lo) * 2^-54 and 0 <= lo < 2^28.  Every operation       *)
(* computes the exact result and rounds it to 53 significant bits, ties    *)
(* to even, as the hardware does.                                          *)
(***************************************************************************)
EXTENDS Integers, Sequences, FiniteSets, TLC

\* ------------------------------------------------------------------------
\* binary64 arithmetic on the 2^-54 grid (non-negative values below 16)
\* ------------------------------------------------------------------------
Limb == 2^28

\* exact sum of two grid values
BigAdd(a, b) ==
    LET lo == a[2] + b[2]
    IN  IF lo >= Limb THEN <<a[1] + b[1] + 1, lo - Limb>>
                      ELSE <<a[1] + b[1], lo>>

\* exact product of a small non-negative integer and a grid value
RECURSIVE BigTimes(_, _)
BigTimes(n, a) == IF n = 0 THEN <<0, 0>> ELSE BigAdd(BigTimes(n - 1, a), a)

BigLess(a, b) == a[1] < b[1] \/ (a[1] = b[1] /\ a[2] < b[2])

BigLeq(a, b) == a = b \/ BigLess(a, b)

\* spacing of binary64 numbers around a, in grid units: 1 below 0.5 (every
\* grid value is representable there), 2 in [0.5,1), 4 in [1,2), 8 in [2,4),
\* 16 in [4,8), 32 in [8,16)
Quantum(a) ==
    IF a[1] < 2^25 THEN 1
    ELSE IF a[1] < 2^26 THEN 2
    ELSE IF a[1] < 2^27 THEN 4
    ELSE IF a[1] < 2^28 THEN 8
    ELSE IF a[1] < 2^29 THEN 16
    ELSE 32

\* round to nearest representable binary64, ties to even
RoundNearestEven(a) ==
    LET q    == Quantum(a)
        r    == a[2] % q
        down == <<a[1], a[2] - r>>
        up   == BigAdd(down, <<0, q>>)
        odd  == ((a[2] \div q) % 2) = 1
    IN  IF r = 0 THEN a
        ELSE IF 2 * r < q THEN down
        ELSE IF 2 * r > q THEN up
        ELSE IF odd THEN up ELSE down

\* a + b in binary64
FAdd(a, b) == RoundNearestEven(BigAdd(a, b))

\* n * a in binary64, n a small non-negative integer
FMulInt(n, a) == RoundNearestEven(BigTimes(n, a))

\* a / 2 in binary64: exact (an exponent decrement) for the even grid values
\* it is applied to
FHalf(a) == <<a[1] \div 2, (a[1] % 2) * (Limb \div 2) + (a[2] \div 2)>>

Zero == <<0, 0>>
Half == <<2^25, 0>>
One == <<2^26, 0>>
ThreeQuarters == <<3 * 2^24, 0>>

\* Math.sqrt(3) / 2 = 0x1.bb67ae8584caap-1 = 7800463371553962 * 2^-53
Sqrt3Over2 == <<58117981, 11573588>>

\* ------------------------------------------------------------------------
\* bounds of the model
\* ------------------------------------------------------------------------
MaxRows == 2
MaxCols == 3
MaxFrames == 6
MaxResizes == 6

\* size.x and size.z handed to createGround: -1 stands for the negative counts
Sizes == [x : -1..MaxRows, z : -1..MaxCols]

\* XPos, ZPos handed to createGround
Origins == {<<Zero, Zero>>, <<One, One>>}

\* values Math.random() can return: a generator with 53 random bits returns
\* the multiples of 2^-53 in [0, 1); the model draws the two smallest, 0 and
\* 2^-53, and the largest, 1 - 2^-53
MathRandom == {Zero, <<0, 2>>, <<2^26 - 1, 2^28 - 2>>}

\* ------------------------------------------------------------------------
\* state
\* ------------------------------------------------------------------------
VARIABLES
    pc,              \* the statement the mount handler executes next, or
                     \* "mounted" / "threw" once it has returned / thrown
    canvasRef,       \* the argument of useGameView: "ref" or "undefined"
    consoleErrors,   \* number of console.error calls
    error,           \* the exception that left the mount handler, or "none"
    engine,          \* "none", "live" or "disposed"
    scene,           \* what the scene holds: counts of scenes, cameras,
                     \* lights, shadow generators, heightmap grounds, skyboxes
    shadowGenerator, \* the closure variable of line 12
    size, XPos, ZPos,\* arguments of createGround
    i,               \* loop variable of createGround
    line,            \* frame of createGroundLine: its i, XPos and ZPos
    columns,         \* the cylinders createGroundObject has built, in order
    casters,         \* renderList of the shadow map: indices into columns
    renderLoops,     \* render functions registered with runRenderLoop
    resizeListeners, \* 'resize' listeners registered on window
    frames,          \* frames the engine has scheduled
    renders,         \* scene.render() calls
    resizeEvents,    \* 'resize' events the window has dispatched
    resizeCalls      \* engine.resize() calls

vars == <<pc, canvasRef, consoleErrors, error, engine, scene, shadowGenerator,
          size, XPos, ZPos, i, line, columns, casters, renderLoops,
          resizeListeners, frames, renders, resizeEvents, resizeCalls>>

hexVars == <<size, XPos, ZPos, i, line, columns, casters>>
loopVars == <<renderLoops, resizeListeners, frames, renders, resizeEvents,
              resizeCalls>>

EmptyScene == [scenes |-> 0, cameras |-> 0, attached |-> 0, lights |-> 0,
               shadowGenerators |-> 0, grounds |-> 0, skyboxes |-> 0]

\* the closure variable shadowGenerator before line 57 assigns it
Undefined == [defined |-> FALSE, mapSize |-> 0, light |-> 0]

NoLine == [i |-> 0, XPos |-> Zero, ZPos |-> Zero]

\* the state when useGameView has returned and the component is not mounted
Start ==
    /\ pc = "onMounted"
    /\ canvasRef \in {"ref", "undefined"}
    /\ consoleErrors = 0
    /\ error = "none"
    /\ engine = "none"
    /\ scene = EmptyScene
    /\ shadowGenerator = Undefined
    /\ i = 0
    /\ line = NoLine
    /\ columns = <<>>
    /\ casters = {}
    /\ renderLoops = 0
    /\ resizeListeners = 0
    /\ frames = 0
    /\ renders = 0
    /\ resizeEvents = 0
    /\ resizeCalls = 0

\* the program as written: createGround is never called
Init ==
    /\ Start
    /\ size = [x |-> 0, z |-> 0]
    /\ XPos = Zero
    /\ ZPos = Zero

\* createGround called with every size and origin of the bounded sets
InitHex ==
    /\ Start
    /\ size \in Sizes
    /\ \E o \in Origins : XPos = o[1] /\ ZPos = o[2]

\* ------------------------------------------------------------------------
\* the mount handler: onMounted, Init, createScene
\* ------------------------------------------------------------------------

\* Then with the shadow generator constructed before the light
Then_shadowFirst(l) ==
    CASE l = "newEngine"          -> "newScene"
      [] l = "newScene"           -> "newCamera"
      [] l = "newCamera"          -> "newShadowGenerator"
      [] l = "newShadowGenerator" -> "newLight"
      [] l = "newLight"           -> "ground"
      [] l = "ground"             -> "skybox"
      [] l = "skybox"             -> "runRenderLoop"
      [] l = "runRenderLoop"      -> "addEventListener"
      [] l = "addEventListener"   -> "mounted"

\* Then with the render loop started before createScene is called
Then_loopFirst(l) ==
    CASE l = "newEngine"          -> "runRenderLoop"
      [] l = "runRenderLoop"      -> "newScene"
      [] l = "newScene"           -> "newCamera"
      [] l = "newCamera"          -> "newLight"
      [] l = "newLight"           -> "newShadowGenerator"
      [] l = "newShadowGenerator" -> "ground"
      [] l = "ground"             -> "skybox"
      [] l = "skybox"             -> "addEventListener"
      [] l = "addEventListener"   -> "mounted"

\* the statement executed after statement l of Init / createScene returns
Then(l) ==
    CASE l = "newEngine"          -> "newScene"
      [] l = "newScene"           -> "newCamera"
      [] l = "newCamera"          -> "newLight"
      [] l = "newLight"           -> "newShadowGenerator"
      [] l = "newShadowGenerator" -> "ground"
      [] l = "ground"             -> "skybox"
      [] l = "skybox"             -> "runRenderLoop"
      [] l = "runRenderLoop"      -> "addEventListener"
      [] l = "addEventListener"   -> "mounted"

\* lines 14-19: a missing canvasRef is logged, and then dereferenced anyway
onMounted ==
    /\ pc = "onMounted"
    /\ IF canvasRef = "undefined"
       THEN /\ consoleErrors' = consoleErrors + 1
            /\ error' = "TypeError"
            /\ pc' = "threw"
       ELSE /\ pc' = "newEngine"
            /\ UNCHANGED <<consoleErrors, error>>
    /\ UNCHANGED <<canvasRef, engine, scene, shadowGenerator, hexVars, loopVars>>

\* line 26
Init_newEngine ==
    /\ pc = "newEngine"
    /\ engine' = "live"
    /\ pc' = Then("newEngine")
    /\ UNCHANGED <<canvasRef, consoleErrors, error, scene, shadowGenerator,
                   hexVars, loopVars>>

\* line 47
createScene_newScene ==
    /\ pc = "newScene"
    /\ scene' = [scene EXCEPT !.scenes = @ + 1]
    /\ pc' = Then("newScene")
    /\ UNCHANGED <<canvasRef, consoleErrors, error, engine, shadowGenerator,
                   hexVars, loopVars>>

\* lines 50-52: the camera is constructed and attached to the canvas
createScene_newCamera ==
    /\ pc = "newCamera"
    /\ scene' = [scene EXCEPT !.cameras = @ + 1, !.attached = @ + 1]
    /\ pc' = Then("newCamera")
    /\ UNCHANGED <<canvasRef, consoleErrors, error, engine, shadowGenerator,
                   hexVars, loopVars>>

\* lines 55-56
createScene_newLight ==
    /\ pc = "newLight"
    /\ scene' = [scene EXCEPT !.lights = @ + 1]
    /\ pc' = Then("newLight")
    /\ UNCHANGED <<canvasRef, consoleErrors, error, engine, shadowGenerator,
                   hexVars, loopVars>>

\* line 57: the shadow generator is bound to the light of line 55
\* (light: the number of that light in the scene, 0 when there is none)
createScene_newShadowGenerator ==
    /\ pc = "newShadowGenerator"
    /\ shadowGenerator' = [defined |-> TRUE, mapSize |-> 1024,
                           light |-> scene.lights]
    /\ scene' = [scene EXCEPT !.shadowGenerators = @ + 1]
    /\ pc' = Then("newShadowGenerator")
    /\ UNCHANGED <<canvasRef, consoleErrors, error, engine, hexVars, loopVars>>

\* createRealGround building the heightmap ground twice
createRealGround_twice ==
    /\ pc = "ground"
    /\ scene' = [scene EXCEPT !.grounds = @ + 2]
    /\ pc' = Then("ground")
    /\ UNCHANGED <<canvasRef, consoleErrors, error, engine, shadowGenerator,
                   hexVars, loopVars>>

\* lines 59, 69-82: one heightmap ground that receives shadows and is not
\* registered as a shadow caster
createRealGround ==
    /\ pc = "ground"
    /\ scene' = [scene EXCEPT !.grounds = @ + 1]
    /\ pc' = Then("ground")
    /\ UNCHANGED <<canvasRef, consoleErrors, error, engine, shadowGenerator,
                   hexVars, loopVars>>

\* lines 60, 88-97
createSkyBox ==
    /\ pc = "skybox"
    /\ scene' = [scene EXCEPT !.skyboxes = @ + 1]
    /\ pc' = Then("skybox")
    /\ UNCHANGED <<canvasRef, consoleErrors, error, engine, shadowGenerator,
                   hexVars, loopVars>>

\* lines 29-31
Init_runRenderLoop ==
    /\ pc = "runRenderLoop"
    /\ renderLoops' = renderLoops + 1
    /\ pc' = Then("runRenderLoop")
    /\ UNCHANGED <<canvasRef, consoleErrors, error, engine, scene,
                   shadowGenerator, hexVars, resizeListeners, frames, renders,
                   resizeEvents, resizeCalls>>

\* Init registering the resize listener on every call and once more
Init_addEventListener_twice ==
    /\ pc = "addEventListener"
    /\ resizeListeners' = resizeListeners + 2
    /\ pc' = Then("addEventListener")
    /\ UNCHANGED <<canvasRef, consoleErrors, error, engine, scene,
                   shadowGenerator, hexVars, renderLoops, frames, renders,
                   resizeEvents, resizeCalls>>

\* lines 33-35
Init_addEventListener ==
    /\ pc = "addEventListener"
    /\ resizeListeners' = resizeListeners + 1
    /\ pc' = Then("addEventListener")
    /\ UNCHANGED <<canvasRef, consoleErrors, error, engine, scene,
                   shadowGenerator, hexVars, renderLoops, frames, renders,
                   resizeEvents, resizeCalls>>

\* the loop tests of lines 107 and 126
LoopTest_le(k, n) == k <= n

LoopTest(k, n) == k < n

\* the statements of Init and createScene that call a BABYLON constructor or
\* builder, any of which can throw
Throwing == {"newEngine", "newScene", "newCamera", "newLight",
             "newShadowGenerator", "ground", "skybox"}

\* the same with createGround on line 59: the builder calls are those of
\* createGroundObject, made from the loop body of createGroundLine
ThrowingHex == (Throwing \ {"ground"}) \cup {"createGroundLine"}

\* an exception leaves the mount handler at one of the statements S: nothing
\* in the file catches it, no statement after it runs, and no statement of
\* the file disposes the engine
Throw(S) ==
    /\ pc \in S
    /\ pc = "createGroundLine" => LoopTest(line.i, size.z)
    /\ error' = "Error"
    /\ pc' = "threw"
    /\ UNCHANGED <<canvasRef, consoleErrors, engine, scene, shadowGenerator,
                   hexVars, loopVars>>

\* ------------------------------------------------------------------------
\* the hexagonal ground: createGround, createGroundLine, createGroundObject
\* ------------------------------------------------------------------------

\* ShadowGenerator.addShadowCaster: the mesh joins the render list of the
\* shadow map unless it is in it already
addShadowCaster(list, mesh) == IF mesh \in list THEN list ELSE list \cup {mesh}

\* Cylinder with the centre placed at the full height
Cylinder_fullHeight(x, z, height) ==
    [x |-> x, z |-> z, y |-> height, height |-> height,
     receiveShadows |-> TRUE]

\* the mesh lines 139-144 build: a cylinder of the given height at (x, z),
\* its centre at height / 2, receiving shadows
Cylinder(x, z, height) ==
    [x |-> x, z |-> z, y |-> FHalf(height), height |-> height,
     receiveShadows |-> TRUE]

\* Math.random() / 2 + 0.5 of line 127, for the value r of Math.random()
RandomHeight(r) == FAdd(FHalf(r), Half)

\* XPos + (i * 0.75) of lines 109 and 112
RowX(x0, row) == FAdd(x0, FMulInt(row, ThreeQuarters))

\* RowZ with the offset given to the odd rows
RowZ_odd(z0, row) == IF row % 2 = 1 THEN FAdd(z0, Half) ELSE z0

\* the ZPos argument of lines 109 and 112
RowZ(z0, row) == IF row % 2 = 0 THEN FAdd(z0, Half) ELSE z0

\* createGroundObject without the registration of line 145
createGroundObject_noCaster(x, z, height) ==
    /\ columns' = Append(columns, Cylinder(x, z, height))
    /\ UNCHANGED <<casters, error, pc>>

\* lines 138-147: the mesh is built and positioned, then registered with the
\* shadow generator of line 12, a TypeError while that is still undefined
createGroundObject(x, z, height) ==
    /\ columns' = Append(columns, Cylinder(x, z, height))
    /\ IF ~shadowGenerator.defined
       THEN /\ error' = "TypeError"
            /\ pc' = "threw"
            /\ UNCHANGED casters
       ELSE /\ casters' = addShadowCaster(casters, Len(columns) + 1)
            /\ UNCHANGED <<error, pc>>

\* line 59 with the hexagonal ground: createGround is entered, i = 0
createGround ==
    /\ pc = "ground"
    /\ i' = 0
    /\ pc' = "createGround"
    /\ UNCHANGED <<canvasRef, consoleErrors, error, engine, scene,
                   shadowGenerator, size, XPos, ZPos, line, columns, casters,
                   loopVars>>

\* lines 107-113: while i < size.x, createGroundLine is called for row i
createGround_row ==
    /\ pc = "createGround"
    /\ LoopTest(i, size.x)
    /\ line' = [i |-> 0, XPos |-> RowX(XPos, i), ZPos |-> RowZ(ZPos, i)]
    /\ pc' = "createGroundLine"
    /\ UNCHANGED <<canvasRef, consoleErrors, error, engine, scene,
                   shadowGenerator, size, XPos, ZPos, i, columns, casters,
                   loopVars>>

\* line 107, i >= size.x: createGround returns to createScene
createGround_return ==
    /\ pc = "createGround"
    /\ ~LoopTest(i, size.x)
    /\ i' = 0
    /\ pc' = Then("ground")
    /\ UNCHANGED <<canvasRef, consoleErrors, error, engine, scene,
                   shadowGenerator, size, XPos, ZPos, line, columns, casters,
                   loopVars>>

\* lines 126-129: one iteration of createGroundLine
createGroundLine ==
    /\ pc = "createGroundLine"
    /\ LoopTest(line.i, size.z)
    /\ \E r \in MathRandom :
          createGroundObject(line.XPos, line.ZPos, RandomHeight(r))
    /\ line' = [line EXCEPT !.ZPos = FAdd(@, Sqrt3Over2), !.i = @ + 1]
    /\ UNCHANGED <<canvasRef, consoleErrors, engine, scene, shadowGenerator,
                   size, XPos, ZPos, i, loopVars>>

\* line 126, i >= length: createGroundLine returns, createGround does i++
createGroundLine_return ==
    /\ pc = "createGroundLine"
    /\ ~LoopTest(line.i, size.z)
    /\ line' = NoLine
    /\ i' = i + 1
    /\ pc' = "createGround"
    /\ UNCHANGED <<canvasRef, consoleErrors, error, engine, scene,
                   shadowGenerator, size, XPos, ZPos, columns, casters,
                   loopVars>>

\* ------------------------------------------------------------------------
\* the event loop, once the mount handler has returned or thrown
\* ------------------------------------------------------------------------
Idle == pc \in {"mounted", "threw"}

\* the engine schedules a frame: every registered render function runs and
\* calls scene.render() (line 30)
Frame ==
    /\ Idle
    /\ renderLoops > 0
    /\ frames < MaxFrames
    /\ frames' = frames + 1
    /\ renders' = renders + renderLoops
    /\ UNCHANGED <<pc, canvasRef, consoleErrors, error, engine, scene,
                   shadowGenerator, hexVars, renderLoops, resizeListeners,
                   resizeEvents, resizeCalls>>

\* the window dispatches 'resize': every registered listener runs and calls
\* engine.resize() (line 34)
WindowResize ==
    /\ Idle
    /\ resizeEvents < MaxResizes
    /\ resizeEvents' = resizeEvents + 1
    /\ resizeCalls' = resizeCalls + resizeListeners
    /\ UNCHANGED <<pc, canvasRef, consoleErrors, error, engine, scene,
                   shadowGenerator, hexVars, renderLoops, resizeListeners,
                   frames, renders>>

\* ------------------------------------------------------------------------
\* specifications
\* ------------------------------------------------------------------------
Next ==
    \/ onMounted
    \/ Init_newEngine
    \/ createScene_newScene
    \/ createScene_newCamera
    \/ createScene_newLight
    \/ createScene_newShadowGenerator
    \/ createRealGround
    \/ createSkyBox
    \/ Init_runRenderLoop
    \/ Init_addEventListener
    \/ Throw(Throwing)
    \/ Frame
    \/ WindowResize

\* the composable as written
Spec == Init /\ [][Next]_vars

NextHex ==
    \/ onMounted
    \/ Init_newEngine
    \/ createScene_newScene
    \/ createScene_newCamera
    \/ createScene_newLight
    \/ createScene_newShadowGenerator
    \/ createGround
    \/ createGround_row
    \/ createGround_return
    \/ createGroundLine
    \/ createGroundLine_return
    \/ createSkyBox
    \/ Init_runRenderLoop
    \/ Init_addEventListener
    \/ Throw(ThrowingHex)
    \/ Frame
    \/ WindowResize

\* the composable with createGround called on line 59 in place of
\* createRealGround, the one place of the file where the scene and the
\* shadow generator createGround needs exist
SpecHex == InitHex /\ [][NextHex]_vars

\* ------------------------------------------------------------------------
\* properties
\* ------------------------------------------------------------------------

\* createScene has returned from the ground builder of line 59
AfterGround == pc \in {"skybox", "runRenderLoop", "addEventListener", "mounted"}

\* createScene has returned
Assembled == pc \in {"runRenderLoop", "addEventListener", "mounted"}

InGround == pc \in {"createGround", "createGroundLine"}

NonNegative == size.x >= 0 /\ size.z >= 0

Negative == size.x < 0 \/ size.z < 0

Max(a, b) == IF a >= b THEN a ELSE b

\* row and column index of the k-th column built
RowOf(k) == (k - 1) \div size.z
ColOf(k) == (k - 1) % size.z

\* steps createGround has taken: grows with every step inside the loops
Progress ==
    i * (Max(size.z, 0) + 2)
      + (IF pc = "createGroundLine" THEN 1 + line.i ELSE 0)

\* C1: for rowCount >= 0 and columnsPerRow >= 0, createGround terminates
\* (every step inside its loops increases Progress, which never exceeds
\* rowCount * (columnsPerRow + 2)) and on return exactly
\* rowCount * columnsPerRow columns have been created.
C1_Count ==
    /\ (AfterGround /\ NonNegative) => Len(columns) = size.x * size.z
    /\ InGround => Progress <= Max(size.x, 0) * (Max(size.z, 0) + 2)

C1_LayoutCount ==
    /\ []C1_Count
    /\ [][(InGround /\ pc' \in {"createGround", "createGroundLine"})
            => Progress' > Progress]_vars

C1_Witness ==
    /\ pc = "skybox"
    /\ size = [x |-> 2, z |-> 3]
    /\ Len(columns) = 6

\* the closed forms the layout is specified by, evaluated in binary64
ClosedX(row) == FAdd(XPos, FMulInt(row, ThreeQuarters))
ClosedBaseZ(row) == FAdd(ZPos, IF row % 2 = 0 THEN Half ELSE Zero)
ClosedZ(row, col) == FAdd(ClosedBaseZ(row), FMulInt(col, Sqrt3Over2))

\* |a - b| <= n grid units
Within(a, b, n) == BigLeq(a, BigAdd(b, <<0, n>>)) /\ BigLeq(b, BigAdd(a, <<0, n>>))

\* C2 as stated: the k-th point emitted is that of row (k-1) div columnsPerRow
\* and column (k-1) mod columnsPerRow (row-major order), with
\* x = originX + i * 0.75 and z = originZ + (0.5 if i even else 0) + j * sqrt(3)/2.
C2_ClosedForm ==
    \A k \in 1..Len(columns) :
        /\ columns[k].x = ClosedX(RowOf(k))
        /\ columns[k].z = ClosedZ(RowOf(k), ColOf(k))

\* C2 (amended): points are emitted in row-major order with
\* x = originX + i * 0.75; the first point of a row has
\* z = originZ + (0.5 if i even else 0), and every further point has the z of
\* its predecessor plus sqrt(3)/2, rounded. That z equals the closed form for
\* j <= 1 and lies within j units in the last place of it otherwise; and
\* generateLayout(2, 1, 0, 0) yields [(0, 0.5), (0.75, 0)].
C2_Layout ==
    /\ \A k \in 1..Len(columns) :
        LET row == RowOf(k)
            col == ColOf(k)
            z   == columns[k].z
            cz  == ClosedZ(row, col)
        IN  /\ columns[k].x = ClosedX(row)
            /\ col = 0 => z = ClosedBaseZ(row)
            /\ col > 0 => z = FAdd(columns[k - 1].z, Sqrt3Over2)
            /\ col <= 1 => z = cz
            /\ Within(z, cz, col * Max(Quantum(z), Quantum(cz)))
    /\ (AfterGround /\ size = [x |-> 2, z |-> 1] /\ XPos = Zero /\ ZPos = Zero)
          => /\ Len(columns) = 2
             /\ <<columns[1].x, columns[1].z>> = <<Zero, Half>>
             /\ <<columns[2].x, columns[2].z>> = <<ThreeQuarters, Zero>>

\* both rows are complete, the origin is (1, 1), and the third point of row 0
\* has left the closed form
C2_Witness ==
    /\ pc = "skybox"
    /\ size = [x |-> 2, z |-> 3]
    /\ ZPos = One
    /\ columns[3].z # ClosedZ(0, 2)
    /\ columns[4].z = ZPos

\* C3 as stated: with a negative rowCount or columnsPerRow the generator fails
\* (with InvalidArgument) instead of returning an empty layout, so createScene
\* never gets past the call, and no column is created.
C3_RejectsNegative ==
    Negative => (~AfterGround /\ columns = <<>>)

\* C4: building the column field registers one shadow caster per column
\* created: every column receives shadows and is in the caster set, the
\* caster set is empty when the build starts, and after the build it holds
\* as many meshes as there are layout points.
C4_OneCasterPerColumn ==
    /\ pc = "ground" => casters = {}
    /\ casters = 1..Len(columns)
    /\ \A k \in 1..Len(columns) : columns[k].receiveShadows
    /\ AfterGround => Cardinality(casters) = Len(columns)
    /\ (AfterGround /\ NonNegative) => Cardinality(casters) = size.x * size.z

C4_Witness ==
    /\ pc = "skybox"
    /\ size = [x |-> 2, z |-> 2]
    /\ Cardinality(casters) = 4

\* C5: scene assembly runs Scene, Camera (attached), Light, ShadowGenerator
\* (bound to that Light), terrain, SkyBox in this order: whatever exists,
\* everything before it exists; the ShadowGenerator exists only if the Light
\* does; terrain building and caster registration happen only while the
\* ShadowGenerator exists; the SkyBox is built only after the whole terrain.
C5_AssemblyOrder ==
    /\ scene.cameras > 0 => scene.scenes = 1
    /\ scene.cameras = scene.attached
    /\ scene.lights > 0 => scene.cameras = 1
    /\ scene.shadowGenerators > 0 =>
          /\ scene.lights = 1
          /\ shadowGenerator.defined
          /\ shadowGenerator.light = 1
    /\ shadowGenerator.defined => scene.shadowGenerators = 1
    /\ (InGround \/ AfterGround \/ columns # <<>> \/ casters # {}) =>
          scene.shadowGenerators = 1
    /\ scene.skyboxes > 0 =>
          /\ Assembled
          /\ Len(columns) = Max(size.x, 0) * Max(size.z, 0)
    /\ (renderLoops > 0 \/ resizeListeners > 0) => scene.skyboxes = 1

\* columns are being registered in the middle of the terrain build
C5_Witness ==
    /\ pc = "createGroundLine"
    /\ Len(columns) = 2
    /\ casters = {1, 2}
    /\ shadowGenerator.light = 1
    /\ scene.skyboxes = 0

\* C6: when scene assembly succeeds the scene holds exactly one Camera, one
\* Light, one ShadowGenerator, one SkyBox, and either one heightmap ground
\* and no Columns or no heightmap ground and rowCount * columnsPerRow
\* Columns, never both.
C6_SceneContents ==
    Assembled =>
        /\ scene.scenes = 1
        /\ scene.cameras = 1
        /\ scene.lights = 1
        /\ scene.shadowGenerators = 1
        /\ scene.skyboxes = 1
        /\ \/ scene.grounds = 1 /\ Len(columns) = 0
           \/ scene.grounds = 0 /\ Len(columns) = size.x * size.z
        /\ ~(scene.grounds > 0 /\ Len(columns) > 0)

C6_Witness ==
    /\ pc = "mounted"
    /\ scene.grounds = 1
    /\ scene.skyboxes = 1
    /\ frames > 0

\* C7 as stated: when assembly fails after the Engine was created, no render
\* loop is started, no resize listener is active, the Engine is disposed and
\* the error is surfaced.
C7_FailureDisposesEngine ==
    (pc = "threw" /\ engine # "none") =>
        /\ renderLoops = 0
        /\ resizeListeners = 0
        /\ frames = 0
        /\ error # "none"
        /\ engine = "disposed"

\* C8: once Init has completed, engine.resize() has been called exactly once
\* per resize event dispatched, the render loop stays registered whatever the
\* number of resizes, every frame has called scene.render(), and the next
\* frame can run.
C8_ResizeAndRender ==
    pc = "mounted" =>
        /\ resizeCalls = resizeEvents
        /\ renderLoops = 1
        /\ renders = frames
        /\ frames < MaxFrames => ENABLED Frame

\* frames and resize events have interleaved
C8_Witness ==
    /\ pc = "mounted"
    /\ resizeEvents = 2
    /\ resizeCalls = 2
    /\ frames = 2
    /\ renders = 2

\* C9: a frame is rendered only after scene assembly has completed; a mesh is
\* registered as a caster only after its creation, every column is
\* registered before the render loop starts, and from the start of the
\* render loop on the caster set never changes.
C9_State ==
    /\ frames > 0 => (pc = "mounted" /\ scene.skyboxes = 1)
    /\ casters \subseteq 1..Len(columns)
    /\ renderLoops > 0 => casters = 1..Len(columns)

C9_CastersFrozen ==
    /\ []C9_State
    /\ [][renderLoops > 0 => casters' = casters]_vars

C9_Witness ==
    /\ pc = "mounted"
    /\ frames > 0
    /\ resizeEvents > 0
    /\ Cardinality(casters) = 6

\* C10 as stated: every column has 0.5 <= height < 1.0, its centre at
\* height / 2, its base at y = 0 and its top at y = height.
C10_HeightBelowOne ==
    \A k \in 1..Len(columns) :
        /\ BigLeq(Half, columns[k].height)
        /\ BigLess(columns[k].height, One)
        /\ columns[k].y = FHalf(columns[k].height)
        /\ FAdd(columns[k].y, FHalf(columns[k].height)) = columns[k].height

\* C10 (amended): every column has 0.5 <= height <= 1.0, its centre at
\* height / 2 for the height given to the mesh builder, its base at y = 0 and
\* its top at y = height.
C10_Height ==
    \A k \in 1..Len(columns) :
        /\ BigLeq(Half, columns[k].height)
        /\ BigLeq(columns[k].height, One)
        /\ columns[k].y = FHalf(columns[k].height)
        /\ FAdd(columns[k].y, FHalf(columns[k].height)) = columns[k].height

\* a column of the smallest and a column of the largest height
C10_Witness ==
    /\ Len(columns) >= 2
    /\ columns[1].height = Half
    /\ columns[1].y = <<2^24, 0>>
    /\ columns[2].height = One
    /\ columns[2].y = Half
=============================================================================
